---- MODULE Spec2Model ----
(***************************************************************************)
(* The task-list state and persistence logic of src/App.tsx: the three     *)
(* useState cells (task, tasks, taskBeingEdited), the handlers that        *)
(* change them, and the AsyncStorage slot 'tasks' they are mirrored to.    *)
(*                                                                         *)
(* JavaScript strings are sequences of one-character strings.  JavaScript  *)
(* values are tagged records (JNull, JBool, JNum, JStr, JArr, JObj); an    *)
(* object is the sequence of its own properties in insertion order.  A     *)
(* JSON text is the sequence of its tokens: JSON.stringify and JSON.parse  *)
(* are modelled at token level (lexing and escaping are not).              *)
(*                                                                         *)
(* Every handler runs to completion on the JS thread against the committed *)
(* state: React Native flushes the state updates of a press or of a        *)
(* promise continuation before the next event is dispatched.               *)
(***************************************************************************)
EXTENDS Integers, Sequences, FiniteSets, TLC

\* ---------------------------------------------------------------- bounds

\* The wall clock reads 2 at the start (the stored tasks were created at 0 and
\* at 1) and at most MaxNow.
MaxNow == 3
\* Saves issued over a whole behaviour.
MaxSaves == 2
\* Restarts of the application over a whole behaviour.
MaxRestarts == 1

\* --------------------------------------------------------------- strings

IsSpace(c) == c \in {" ", "\t", "\n"}

RECURSIVE TrimStart(_)
TrimStart(s) ==
  IF s # <<>> /\ IsSpace(Head(s)) THEN TrimStart(Tail(s)) ELSE s

RECURSIVE TrimEnd(_)
TrimEnd(s) ==
  IF s # <<>> /\ IsSpace(s[Len(s)]) THEN TrimEnd(SubSeq(s, 1, Len(s) - 1)) ELSE s

\* String.prototype.trim
Trim(s) == TrimEnd(TrimStart(s))

Digit(d) == <<"0", "1", "2", "3", "4", "5", "6", "7", "8", "9">>[d + 1]

\* Number.prototype.toString of a non-negative integer
RECURSIVE NumberToString(_)
NumberToString(n) ==
  IF n < 10 THEN <<Digit(n)>> ELSE NumberToString(n \div 10) \o <<Digit(n % 10)>>

\* ------------------------------------------------------ JavaScript values

Undefined == [t |-> "undefined"]
JNull == [t |-> "null"]
JBool(b) == [t |-> "bool", b |-> b]
JNum(s) == [t |-> "num", s |-> s]
JStr(s) == [t |-> "str", s |-> s]
JArr(a) == [t |-> "arr", a |-> a]
JObj(o) == [t |-> "obj", o |-> o]
Prop(k, v) == [k |-> k, v |-> v]

\* ToBoolean
Truthy(v) ==
  CASE v.t \in {"undefined", "null"} -> FALSE
    [] v.t = "bool" -> v.b
    [] v.t = "num" -> v.s # <<"0">>
    [] v.t = "str" -> v.s # <<>>
    [] OTHER -> TRUE

\* A property read o.k throws a TypeError on null and undefined.
ReadThrows(v) == v.t \in {"undefined", "null"}

\* o.k for the keys the program reads (id, text, completed): an own property of
\* an object, undefined on every other value.
GetProp(v, k) ==
  IF v.t = "obj" /\ \E i \in 1..Len(v.o) : v.o[i].k = k
  THEN v.o[CHOOSE i \in 1..Len(v.o) : v.o[i].k = k].v
  ELSE Undefined

\* { ...o, k: x } for an object o: k keeps its place if o has it and is added
\* last if not.
SetProp(v, k, x) ==
  IF \E i \in 1..Len(v.o) : v.o[i].k = k
  THEN JObj([i \in 1..Len(v.o) |-> IF v.o[i].k = k THEN Prop(k, x) ELSE v.o[i]])
  ELSE JObj(Append(v.o, Prop(k, x)))

\* [...v]: the elements of an array, the characters of a string, a TypeError
\* on anything else.
Iterable(v) == v.t \in {"arr", "str"}
Spread(v) ==
  IF v.t = "arr" THEN v.a ELSE [i \in 1..Len(v.s) |-> JStr(<<v.s[i]>>)]

KeyId == <<"i", "d">>
KeyText == <<"t", "e", "x", "t">>
KeyCompleted == <<"c", "o", "m", "p", "l", "e", "t", "e", "d">>

\* The Task interface: an object with exactly id (string), text (string) and
\* completed (boolean).
IsTask(v) ==
  /\ v.t = "obj"
  /\ Len(v.o) = 3
  /\ {v.o[i].k : i \in 1..3} = {KeyId, KeyText, KeyCompleted}
  /\ GetProp(v, KeyId).t = "str"
  /\ GetProp(v, KeyText).t = "str"
  /\ GetProp(v, KeyCompleted).t = "bool"

IsTaskList(v) == v.t = "arr" /\ \A i \in 1..Len(v.a) : IsTask(v.a[i])

IdOf(item) == GetProp(item, KeyId)
TextOf(item) == GetProp(item, KeyText)
CompletedOf(item) == GetProp(item, KeyCompleted)

\* ------------------------------------------------------------------ JSON

Tok(k, s) == [k |-> k, s |-> s]
Punct(c) == Tok("punct", <<c>>)
Lit(w) == Tok("lit", <<w>>)

RECURSIVE Stringify(_)
RECURSIVE StringifyElements(_)
RECURSIVE StringifyMembers(_)

\* The elements of an array, comma separated; undefined is written as null.
StringifyElements(a) ==
  IF a = <<>> THEN <<>>
  ELSE LET h == IF Head(a).t = "undefined" THEN <<Lit("null")>>
                ELSE Stringify(Head(a))
       IN IF Len(a) = 1 THEN h
          ELSE h \o <<Punct(",")>> \o StringifyElements(Tail(a))

\* The properties of an object, comma separated; the caller has removed the
\* undefined ones.
StringifyMembers(o) ==
  IF o = <<>> THEN <<>>
  ELSE LET h == <<Tok("str", Head(o).k), Punct(":")>> \o Stringify(Head(o).v)
       IN IF Len(o) = 1 THEN h
          ELSE h \o <<Punct(",")>> \o StringifyMembers(Tail(o))

\* JSON.stringify
Stringify(v) ==
  CASE v.t = "null" -> <<Lit("null")>>
    [] v.t = "bool" -> <<Lit(IF v.b THEN "true" ELSE "false")>>
    [] v.t = "num" -> <<Tok("num", v.s)>>
    [] v.t = "str" -> <<Tok("str", v.s)>>
    [] v.t = "arr" -> <<Punct("[")>> \o StringifyElements(v.a) \o <<Punct("]")>>
    [] v.t = "obj" ->
         <<Punct("{")>>
         \o StringifyMembers(SelectSeq(v.o, LAMBDA p : p.v.t # "undefined"))
         \o <<Punct("}")>>

SyntaxError == [ok |-> FALSE]
Parsed(v, rest) == [ok |-> TRUE, val |-> v, rest |-> rest]

RECURSIVE ParseValue(_)
RECURSIVE ParseElements(_, _)
RECURSIVE ParseMembers(_, _)

\* After '[' or after a ',': a value, then ',' or ']'.
ParseElements(ts, acc) ==
  LET r == ParseValue(ts) IN
  IF ~r.ok \/ r.rest = <<>> THEN SyntaxError
  ELSE IF Head(r.rest) = Punct("]") THEN Parsed(JArr(Append(acc, r.val)), Tail(r.rest))
  ELSE IF Head(r.rest) = Punct(",") THEN ParseElements(Tail(r.rest), Append(acc, r.val))
  ELSE SyntaxError

\* After '{' or after a ',': a string key, ':', a value, then ',' or '}'. A
\* repeated key keeps its first place and takes the last value.
ParseMembers(ts, acc) ==
  IF Len(ts) < 2 \/ Head(ts).k # "str" \/ ts[2] # Punct(":") THEN SyntaxError
  ELSE LET r == ParseValue(Tail(Tail(ts)))
           o == SetProp(acc, Head(ts).s, r.val)
       IN IF ~r.ok \/ r.rest = <<>> THEN SyntaxError
          ELSE IF Head(r.rest) = Punct("}") THEN Parsed(o, Tail(r.rest))
          ELSE IF Head(r.rest) = Punct(",") THEN ParseMembers(Tail(r.rest), o)
          ELSE SyntaxError

ParseValue(ts) ==
  IF ts = <<>> THEN SyntaxError
  ELSE LET h == Head(ts) IN
    CASE h.k = "str" -> Parsed(JStr(h.s), Tail(ts))
      [] h.k = "num" -> Parsed(JNum(h.s), Tail(ts))
      [] h = Lit("null") -> Parsed(JNull, Tail(ts))
      [] h = Lit("true") -> Parsed(JBool(TRUE), Tail(ts))
      [] h = Lit("false") -> Parsed(JBool(FALSE), Tail(ts))
      [] h = Punct("[") ->
           IF Len(ts) >= 2 /\ ts[2] = Punct("]")
           THEN Parsed(JArr(<<>>), Tail(Tail(ts)))
           ELSE ParseElements(Tail(ts), <<>>)
      [] h = Punct("{") ->
           IF Len(ts) >= 2 /\ ts[2] = Punct("}")
           THEN Parsed(JObj(<<>>), Tail(Tail(ts)))
           ELSE ParseMembers(Tail(ts), JObj(<<>>))
      [] OTHER -> SyntaxError

\* JSON.parse: one value and nothing after it, a SyntaxError otherwise.
Parse(ts) ==
  LET r == ParseValue(ts) IN
  IF r.ok /\ r.rest = <<>> THEN [ok |-> TRUE, val |-> r.val] ELSE SyntaxError


\* ----------------------------------------------------------------- state

VARIABLES
  task,             \* useState(''): the text of the input field
  tasks,            \* useState<Task[]>([]): the in-memory list
  taskBeingEdited,  \* useState<string | null>(null): the edit target
  now,              \* the wall clock when it was last read
  storage,          \* the AsyncStorage slot 'tasks'
  load,             \* where loadTasks is, and what getItem gave it
  saves,            \* the setItem calls in flight, in the order they were issued
  log,              \* the messages written with console.error
  uncaught,         \* an exception left a handler or a promise uncaught
  session,          \* how many times the application has been restarted
  issued,           \* history: how many saves were issued
  done,             \* history: how many saves completed successfully
  lastDone,         \* history: the save that completed successfully last,
                    \* and whether each save so far completed before every
                    \* save issued after it
  op,               \* history: the step taken last
  budget            \* how many saves the behaviour may issue

vars == <<task, tasks, taskBeingEdited, now, storage, load, saves, log,
          uncaught, session, issued, done, lastDone, op, budget>>

NewTask(id, text) ==
  JObj(<<Prop(KeyId, JStr(id)), Prop(KeyText, JStr(text)),
         Prop(KeyCompleted, JBool(FALSE))>>)

StoredTask(id, text, completed) ==
  JObj(<<Prop(KeyId, JStr(id)), Prop(KeyText, JStr(text)),
         Prop(KeyCompleted, JBool(completed))>>)

Absent == [present |-> FALSE, text |-> <<>>]
Stored(ts) == [present |-> TRUE, text |-> ts]

\* What the slot may hold when the application starts: nothing, a list an
\* earlier session saved, or a value that is no task list (a truncated text,
\* a single task object that is not inside an array).
InitialSlots ==
  { Absent,
    Stored(Stringify(JArr(<<StoredTask(NumberToString(0), <<"a">>, TRUE),
                            StoredTask(NumberToString(1), <<"b", " ">>, FALSE)>>))),
    Stored(<<Punct("[")>>),
    Stored(Stringify(StoredTask(NumberToString(0), <<"a">>, FALSE))) }

\* What the user may type into the input field.
InputTexts == { <<" ">>, <<" ", "b">> }

\* The ids a row's buttons may pass to a handler (lines 125, 141, 144): the ids
\* of the rows of the list, and the id of a row that is not, or no longer, there.
ArgIds ==
  (IF tasks.t = "arr"
   THEN { IdOf(tasks.a[i]).s : i \in { j \in 1..Len(tasks.a) : IdOf(tasks.a[j]).t = "str" } }
   ELSE {})
  \cup { NumberToString(0) }

NoSave == [set |-> FALSE, inOrder |-> TRUE]
\* The history of the step taken last: the handler that ran and the id it was
\* given (a toggle also records the list it found). The steps no property is
\* about are recorded as Other.
Step(name, arg) == [name |-> name, arg |-> arg]
Other == Step("other", <<>>)

Started(slots, n) ==
  /\ budget = n
  /\ storage \in slots
  /\ task = JStr(<<>>)
  /\ tasks = JArr(<<>>)
  /\ taskBeingEdited = JNull
  /\ now = 2
  /\ load = [st |-> "pending"]
  /\ saves = <<>>
  /\ log = {}
  /\ uncaught = FALSE
  /\ session = 0
  /\ issued = 0
  /\ done = 0
  /\ lastDone = NoSave
  /\ op = Other

\* The state after the first render and the effect of line 22: loadTasks has
\* called getItem and waits.
Init == Started(InitialSlots, MaxSaves)

\* The first start of the application, with nothing stored, and one more save.
InitFresh == Started({Absent}, MaxSaves + 1)

\* ------------------------------------------------------------ persistence

\* AsyncStorage.getItem settles: with the slot's value, with null when the
\* slot is empty, or with a storage error.
getItemSettles ==
  /\ load.st = "pending"
  /\ \E r \in { IF storage.present
                THEN [kind |-> "value", text |-> storage.text, src |-> lastDone]
                ELSE [kind |-> "null"],
                [kind |-> "error"] } :
       load' = [st |-> "read", res |-> r]
  /\ op' = Other
  /\ UNCHANGED <<task, tasks, taskBeingEdited, now, storage, saves, log,
                 uncaught, session, issued, done, lastDone, budget>>

\* Whether loadTasks reaches setTasks: getItem gave a non-empty string and
\* JSON.parse returned.
LoadsValue(res) ==
  res.kind = "value" /\ Truthy(JStr(res.text)) /\ Parse(res.text).ok

\* A loadTasks that calls setTasks([]) when it has no value to show.
LoadedTasksReset(res, current) ==
  IF LoadsValue(res) THEN Parse(res.text).val ELSE JArr(<<>>)

\* A loadTasks that adds the stored tasks to those already in memory.
LoadedTasksMerged(res, current) ==
  IF LoadsValue(res) /\ Iterable(Parse(res.text).val)
  THEN JArr(Spread(current) \o Spread(Parse(res.text).val))
  ELSE current

\* The list in memory after loadTasks: the parsed value, whatever it is, when
\* setTasks is reached, and the list as it was when not.
LoadedTasks(res, current) ==
  IF LoadsValue(res) THEN Parse(res.text).val ELSE current

\* Whether loadTasks reaches its catch block: getItem rejected, or JSON.parse
\* threw on a non-empty value.
LoadFails(res) ==
  \/ res.kind = "error"
  \/ res.kind = "value" /\ Truthy(JStr(res.text)) /\ ~Parse(res.text).ok

\* loadTasks after its await.
loadTasks ==
  /\ load.st = "read"
  /\ load' = [load EXCEPT !.st = "done"]
  /\ tasks' = LoadedTasks(load.res, tasks)
  /\ log' = IF LoadFails(load.res) THEN log \cup {"Failed to load tasks"} ELSE log
  /\ op' = Step("loadTasks", <<>>)
  /\ UNCHANGED <<task, taskBeingEdited, now, storage, saves, uncaught,
                 session, issued, done, lastDone, budget>>

\* saveTasks writing only the newest task of the list.
SaveTasksLastOnly(updatedTasks) ==
  Append(saves, [n |-> issued + 1,
                 text |-> Stringify(JArr(IF updatedTasks.a = <<>> THEN <<>>
                                         ELSE <<updatedTasks.a[Len(updatedTasks.a)]>>)),
                 of |-> updatedTasks])

\* saveTasks serializing the state cell, which still holds the list of the
\* last render, instead of its argument.
SaveTasksStale(updatedTasks) ==
  Append(saves, [n |-> issued + 1, text |-> Stringify(tasks), of |-> updatedTasks])

\* saveTasks up to its await: the list is serialized and setItem is called.
SaveTasks(updatedTasks) ==
  Append(saves, [n |-> issued + 1, text |-> Stringify(updatedTasks),
                 of |-> updatedTasks])

\* A setItem call in flight succeeds: the slot takes its value.
setItemResolves ==
  \E i \in 1..Len(saves) :
    /\ storage' = Stored(saves[i].text)
    /\ saves' = SubSeq(saves, 1, i - 1) \o SubSeq(saves, i + 1, Len(saves))
    /\ done' = done + 1
    /\ lastDone' = [set |-> TRUE, n |-> saves[i].n, of |-> saves[i].of,
                    session |-> session,
                    inOrder |-> lastDone.inOrder /\ i = 1]
    /\ op' = Other
    /\ UNCHANGED <<task, tasks, taskBeingEdited, now, load, log, uncaught,
                   session, issued, budget>>

\* A catch block that calls saveTasks again with the same list.
SaveTasksCatchRetry(i) ==
  /\ saves' = Append(SubSeq(saves, 1, i - 1) \o SubSeq(saves, i + 1, Len(saves)),
                     [saves[i] EXCEPT !.n = issued + 1])
  /\ issued' = issued + 1
  /\ log' = log \cup {"Failed to save tasks"}
  /\ UNCHANGED <<task, tasks, taskBeingEdited, uncaught>>

\* The catch block of saveTasks: what a rejected setItem changes.
SaveTasksCatch(i) ==
  /\ saves' = SubSeq(saves, 1, i - 1) \o SubSeq(saves, i + 1, Len(saves))
  /\ log' = log \cup {"Failed to save tasks"}
  /\ UNCHANGED <<task, tasks, taskBeingEdited, uncaught, issued>>

\* A setItem call in flight fails with a storage error: the slot is not written.
setItemRejects ==
  \E i \in 1..Len(saves) :
    /\ SaveTasksCatch(i)
    /\ op' = Step("setItemRejected", <<>>)
    /\ UNCHANGED <<now, storage, load, session, done, lastDone, budget>>

\* --------------------------------------------------------------- handlers

\* A TypeError leaves a handler before its first setState call: nothing changes.
Throws(name) ==
  /\ uncaught' = TRUE
  /\ op' = Step("typeError", name)
  /\ UNCHANGED <<task, tasks, taskBeingEdited, now, storage, load, saves, log,
                 session, issued, done, lastDone, budget>>

\* tasks.map(f) and tasks.filter(f), f reading item.id: a TypeError when tasks
\* is no array or holds a null.
IterationThrows(ts) ==
  ts.t # "arr" \/ \E i \in 1..Len(ts.a) : ReadThrows(ts.a[i])

\* A submit with no test of the text at all.
SubmitsAlways(text) == TRUE

\* if (task): the text is not trimmed before it is tested.
SubmitsUntrimmed(text) == Truthy(JStr(text))

\* if (task.trim())
Submits(text) == Truthy(JStr(Trim(text)))

\* An update that builds the task anew, { id, text, completed: false }, instead
\* of spreading the old one.
UpdateTextResetCompleted(ts, id, text) ==
  JArr([i \in 1..Len(ts.a) |->
          IF IdOf(ts.a[i]) = id THEN NewTask(id.s, text) ELSE ts.a[i]])

\* tasks.map(item => item.id === taskBeingEdited ? { ...item, text: task } : item)
UpdateText(ts, id, text) ==
  JArr([i \in 1..Len(ts.a) |->
          IF IdOf(ts.a[i]) = id THEN SetProp(ts.a[i], KeyText, JStr(text))
          ELSE ts.a[i]])

\* A list that takes the new task first: [newTask, ...tasks].
AppendTaskFirst(ts, clock, text) ==
  JArr(<<NewTask(NumberToString(clock), text)>> \o Spread(ts))

\* [...tasks, { id: Date.now().toString(), text: task, completed: false }]
AppendTask(ts, clock, text) ==
  JArr(Append(Spread(ts), NewTask(NumberToString(clock), text)))

\* tasks.filter(item => item.id !== taskId)
FilterOut(ts, taskId) ==
  JArr(SelectSeq(ts.a, LAMBDA item : IdOf(item) # JStr(taskId)))

\* A toggle that also moves the toggled tasks behind the others.
ToggleCompletedMoveLast(ts, taskId) ==
  JArr(SelectSeq(ts.a, LAMBDA item : IdOf(item) # JStr(taskId))
       \o [i \in 1..Len(SelectSeq(ts.a, LAMBDA item : IdOf(item) = JStr(taskId))) |->
             SetProp(SelectSeq(ts.a, LAMBDA item : IdOf(item) = JStr(taskId))[i],
                     KeyCompleted,
                     JBool(~Truthy(CompletedOf(
                       SelectSeq(ts.a, LAMBDA item : IdOf(item) = JStr(taskId))[i]))))])

\* A toggle that marks the task completed, completed: true, whatever it was.
ToggleCompletedSetTrue(ts, taskId) ==
  JArr([i \in 1..Len(ts.a) |->
          IF IdOf(ts.a[i]) = JStr(taskId)
          THEN SetProp(ts.a[i], KeyCompleted, JBool(TRUE))
          ELSE ts.a[i]])

\* tasks.map(item => item.id === taskId
\*                     ? { ...item, completed: !item.completed } : item)
ToggleCompleted(ts, taskId) ==
  JArr([i \in 1..Len(ts.a) |->
          IF IdOf(ts.a[i]) = JStr(taskId)
          THEN SetProp(ts.a[i], KeyCompleted, JBool(~Truthy(CompletedOf(ts.a[i]))))
          ELSE ts.a[i]])

\* A lookup that takes the first row whenever the id is in the list.
FindIndexFirstRow(ts, taskId) ==
  IF \E i \in 1..Len(ts.a) : IdOf(ts.a[i]) = JStr(taskId) THEN 1 ELSE 0

\* tasks.find(item => item.id === taskId): the index of the first match, 0 for
\* undefined.
FindIndex(ts, taskId) ==
  IF \E i \in 1..Len(ts.a) : IdOf(ts.a[i]) = JStr(taskId)
  THEN CHOOSE i \in 1..Len(ts.a) :
         /\ IdOf(ts.a[i]) = JStr(taskId)
         /\ \A j \in 1..(i - 1) : IdOf(ts.a[j]) # JStr(taskId)
  ELSE 0

\* find stops at the first match: it throws on a null before it.
FindThrows(ts, taskId) ==
  \/ ts.t # "arr"
  \/ \E i \in 1..Len(ts.a) :
       /\ ReadThrows(ts.a[i])
       /\ \A j \in 1..(i - 1) : IdOf(ts.a[j]) # JStr(taskId)

\* setTasks(updatedTasks); saveTasks(updatedTasks)
Commit(updatedTasks) ==
  /\ issued < budget
  /\ tasks' = updatedTasks
  /\ saves' = SaveTasks(updatedTasks)
  /\ issued' = issued + 1

\* Date.now(): the clock has not advanced since it was last read, or it has.
DateNow == { c \in {now, now + 1} : c <= MaxNow }

\* onChangeText={(text) => setTask(text)}
setTask ==
  \E text \in InputTexts :
    /\ task' = JStr(text)
    /\ op' = Other
    /\ UNCHANGED <<tasks, taskBeingEdited, now, storage, load, saves, log,
                   uncaught, session, issued, done, lastDone, budget>>

addOrUpdateTask ==
  IF task.t # "str" THEN Throws(<<>>)
  ELSE IF ~Submits(task.s) THEN
    /\ op' = Step("rejected", <<>>)
    /\ UNCHANGED <<task, tasks, taskBeingEdited, now, storage, load, saves,
                   log, uncaught, session, issued, done, lastDone, budget>>
  ELSE IF Truthy(taskBeingEdited) THEN
    IF IterationThrows(tasks) THEN Throws(taskBeingEdited.s)
    ELSE
      /\ Commit(UpdateText(tasks, taskBeingEdited, task.s))
      /\ task' = JStr(<<>>)
      /\ taskBeingEdited' = JNull
      /\ op' = Step("update", taskBeingEdited.s)
      /\ UNCHANGED <<now, storage, load, log, uncaught, session, done, lastDone,
                     budget>>
  ELSE
    IF ~Iterable(tasks) THEN Throws(<<>>)
    ELSE \E clock \in DateNow :
      /\ Commit(AppendTask(tasks, clock, task.s))
      /\ now' = clock
      /\ task' = JStr(<<>>)
      /\ op' = Step("add", NumberToString(clock))
      /\ UNCHANGED <<taskBeingEdited, storage, load, log, uncaught, session,
                     done, lastDone, budget>>

deleteTask ==
  \E taskId \in ArgIds :
    IF IterationThrows(tasks) THEN Throws(taskId)
    ELSE
      /\ Commit(FilterOut(tasks, taskId))
      /\ op' = Step("delete", taskId)
      /\ UNCHANGED <<task, taskBeingEdited, now, storage, load, log, uncaught,
                     session, done, lastDone, budget>>

toggleTaskCompletion ==
  \E taskId \in ArgIds :
    IF IterationThrows(tasks) THEN Throws(taskId)
    ELSE
      /\ Commit(ToggleCompleted(tasks, taskId))
      /\ op' = [name |-> "toggle", arg |-> taskId, before |-> tasks]
      /\ UNCHANGED <<task, taskBeingEdited, now, storage, load, log, uncaught,
                     session, done, lastDone, budget>>

startEditingTask ==
  \E taskId \in ArgIds :
    IF FindThrows(tasks, taskId) THEN Throws(taskId)
    ELSE IF FindIndex(tasks, taskId) = 0 THEN
      /\ op' = Step("editMiss", taskId)
      /\ UNCHANGED <<task, tasks, taskBeingEdited, now, storage, load, saves,
                     log, uncaught, session, issued, done, lastDone, budget>>
    ELSE
      /\ task' = TextOf(tasks.a[FindIndex(tasks, taskId)])
      /\ taskBeingEdited' = JStr(taskId)
      /\ op' = Step("edit", taskId)
      /\ UNCHANGED <<tasks, now, storage, load, saves, log, uncaught, session,
                     issued, done, lastDone, budget>>

\* ------------------------------------------------------------ environment

\* The application is stopped and started again: the component state is that
\* of lines 15-17, the effect of line 22 calls loadTasks, and the setItem
\* calls still in flight are lost. The slot stays. A restart takes time.
restart ==
  /\ session < MaxRestarts
  /\ now < MaxNow
  /\ session' = session + 1
  /\ now' = now + 1
  /\ task' = JStr(<<>>)
  /\ tasks' = JArr(<<>>)
  /\ taskBeingEdited' = JNull
  /\ load' = [st |-> "pending"]
  /\ saves' = <<>>
  /\ log' = {}
  /\ uncaught' = FALSE
  /\ op' = Other
  /\ UNCHANGED <<storage, issued, done, lastDone, budget>>

Next ==
  \/ getItemSettles
  \/ loadTasks
  \/ setItemResolves
  \/ setItemRejects
  \/ setTask
  \/ addOrUpdateTask
  \/ deleteTask
  \/ toggleTaskCompletion
  \/ startEditingTask
  \/ restart


Spec == Init /\ [][Next]_vars

SpecFresh == InitFresh /\ [][Next]_vars

\* ----------------------------------------------------------------- claims

Items(v) == IF v.t = "arr" THEN v.a ELSE <<>>

HasId(v, id) == \E i \in 1..Len(Items(v)) : IdOf(Items(v)[i]) = JStr(id)

\* C1: after any sequence of operations the ids of the in-memory list are
\* pairwise distinct; every add creates a task whose id differs from the id of
\* every task already in the list.
C1_IdsPairwiseDistinct ==
  \A i, j \in 1..Len(Items(tasks)) :
    i # j => IdOf(Items(tasks)[i]) # IdOf(Items(tasks)[j])

\* C2: each save overwrites the slot with the whole list it was issued with,
\* and the save that completed last determines the slot: once a save has
\* completed, the slot holds the serialization of the list that the save which
\* completed last was issued with, and every save in flight carries the
\* serialization of the list it was issued with.
C2_LastCompletedSaveWins ==
  /\ lastDone.set => storage = Stored(Stringify(lastDone.of))
  /\ \A i \in 1..Len(saves) : saves[i].text = Stringify(saves[i].of)

\* Two saves were in flight together and completed out of submission order:
\* every save issued has completed successfully, none is in flight, and the
\* slot holds the list of the first save, not the list in memory.
C2_Witness ==
  /\ issued = 2 /\ done = 2 /\ saves = <<>>
  /\ lastDone.set /\ lastDone.n = 1
  /\ storage = Stored(Stringify(lastDone.of))
  /\ lastDone.of # tasks
  /\ storage.text # Stringify(tasks)

\* The reads that give loadTasks nothing to show: no value, a storage error,
\* a value that does not parse.
NothingLoaded(res) ==
  \/ res.kind \in {"null", "error"}
  \/ res.kind = "value" /\ ~Parse(res.text).ok

C4_IncompatibleValueIsAbsent ==
  (/\ op.name = "loadTasks"
   /\ load.res.kind = "value"
   /\ Parse(load.res.text).ok
   /\ ~IsTaskList(Parse(load.res.text).val))
    => (tasks = JArr(<<>>) /\ tasks # Parse(load.res.text).val)

\* C5: when a save fails, the in-memory list, the input text and the edit
\* target are what they were, the slot keeps its value, nothing is propagated,
\* and no save is issued because of the failure: the failed save leaves the
\* saves in flight and no other joins them.
C5_SaveFailureChangesNothing ==
  [][op'.name = "setItemRejected"
       => /\ tasks' = tasks
          /\ task' = task
          /\ taskBeingEdited' = taskBeingEdited
          /\ storage' = storage
          /\ uncaught' = uncaught
          /\ issued' = issued
          /\ Len(saves') = Len(saves) - 1
          /\ \A i \in 1..Len(saves') : \E j \in 1..Len(saves) : saves'[i] = saves[j]
          /\ "Failed to save tasks" \in log']_vars

\* A save has just failed: the list in memory holds a task the slot does not,
\* and no save is in flight.
C5_Witness ==
  /\ op.name = "setItemRejected"
  /\ "Failed to save tasks" \in log
  /\ Len(Items(tasks)) >= 1
  /\ storage.text # Stringify(tasks)
  /\ saves = <<>>
  /\ ~uncaught

\* C6: every add, update, toggleCompletion and delete that is carried out
\* issues exactly one save, in the step of the in-memory update, whose payload
\* is the serialization of the whole resulting list; beginEdit and a submit
\* rejected for trimmed-empty text issue none.
C6_EveryMutationIssuesOneSave ==
  [][/\ op'.name \in {"add", "update", "toggle", "delete"}
          => /\ issued' = issued + 1
             /\ Len(saves') = Len(saves) + 1
             /\ SubSeq(saves', 1, Len(saves)) = saves
             /\ saves'[Len(saves')].text = Stringify(tasks')
     /\ op'.name \in {"edit", "editMiss", "rejected"}
          => /\ issued' = issued
             /\ saves' = saves]_vars

\* A toggle has just issued the second save in flight, with the list now in
\* memory as its payload.
C6_Witness ==
  /\ op.name = "toggle"
  /\ HasId(tasks, op.arg)
  /\ Len(saves) = 2
  /\ saves[2].text = Stringify(tasks)
  /\ saves[1].text # saves[2].text

\* C7: if a list L was written to the slot by a successful save and the slot
\* is not overwritten before it is read, the load() that reads it makes the
\* in-memory list equal to L: same ids, texts, completed flags, same order.
C7_RoundTrip ==
  (op.name = "loadTasks" /\ load.res.kind = "value" /\ load.res.src.set)
    => tasks = load.res.src.of

\* A fresh session has loaded a list of two tasks, one of them completed, that
\* a save of the session before wrote.
C7_Witness ==
  /\ op.name = "loadTasks"
  /\ load.res.kind = "value" /\ load.res.src.set
  /\ load.res.src.session < session
  /\ tasks = load.res.src.of
  /\ Len(Items(tasks)) = 2
  /\ IdOf(tasks.a[1]) # IdOf(tasks.a[2])
  /\ \E i \in 1..2 : CompletedOf(tasks.a[i]) = JBool(TRUE)
  /\ \E i \in 1..2 : CompletedOf(tasks.a[i]) = JBool(FALSE)

\* C8: with the edit target set to a task X, a submit of text t that is not
\* empty after trimming replaces X's text by t in place: the length of the
\* list, and X's position, id and completed flag are unchanged, every task
\* with another id is unchanged, and afterwards the edit target is none.
C8_EditThenSubmitUpdatesInPlace ==
  [][op'.name = "update"
       => /\ Truthy(taskBeingEdited)
          /\ taskBeingEdited' = JNull
          /\ tasks'.t = "arr"
          /\ Len(tasks'.a) = Len(tasks.a)
          /\ \A i \in 1..Len(tasks.a) :
               IF IdOf(tasks.a[i]) = taskBeingEdited
               THEN /\ TextOf(tasks'.a[i]) = task
                    /\ IdOf(tasks'.a[i]) = IdOf(tasks.a[i])
                    /\ CompletedOf(tasks'.a[i]) = CompletedOf(tasks.a[i])
               ELSE tasks'.a[i] = tasks.a[i]]_vars

\* The first of two tasks, a completed one, has just been given the text " b"
\* through the edit target, which is none again.
C8_Witness ==
  /\ op.name = "update"
  /\ taskBeingEdited = JNull
  /\ Len(Items(tasks)) = 2
  /\ IdOf(tasks.a[1]) = JStr(op.arg)
  /\ TextOf(tasks.a[1]) = JStr(<<" ", "b">>)
  /\ CompletedOf(tasks.a[1]) = JBool(TRUE)
  /\ TextOf(tasks.a[2]) = JStr(<<"b", " ">>)

\* The positions of the list that hold a task with another id than taskId.
Others(v, taskId) ==
  SelectSeq(Items(v), LAMBDA item : IdOf(item) # JStr(taskId))

\* C9: delete(X) for a task X of the list removes exactly that one task: the
\* length decreases by exactly one and all other tasks remain, unchanged and
\* in their order; delete of an id not in the list leaves the list unchanged.
C9_DeleteRemovesExactlyOne ==
  [][op'.name = "delete"
       => IF HasId(tasks, op'.arg)
          THEN /\ Len(Items(tasks')) = Len(Items(tasks)) - 1
               /\ Others(tasks', op'.arg) = Others(tasks, op'.arg)
               /\ ~HasId(tasks', op'.arg)
          ELSE tasks' = tasks]_vars

\* C10: a submit whose text is empty after trimming changes nothing: the list
\* is unchanged in either mode, and the edit target stays as it is; a submit
\* that is carried out as an add or an update had text that was not.
C10_BlankSubmitChangesNothing ==
  [][/\ op'.name = "rejected"
          => /\ Trim(task.s) = <<>>
             /\ UNCHANGED <<task, tasks, taskBeingEdited, storage, saves, issued>>
     /\ op'.name \in {"add", "update"}
          => Trim(task.s) # <<>>]_vars

\* A submit of " " has just been rejected while a task of the list is the
\* edit target.
C10_Witness ==
  /\ op.name = "rejected"
  /\ task = JStr(<<" ">>)
  /\ Truthy(taskBeingEdited)
  /\ HasId(tasks, taskBeingEdited.s)
  /\ \A i \in 1..Len(Items(tasks)) : TextOf(tasks.a[i]) # task

\* C11: toggleCompletion(id) flips the completed flag of every task with that
\* id and leaves the other tasks as they are; a toggleCompletion(id) that
\* directly follows a toggleCompletion(id) returns the whole in-memory list to
\* the value it had before the first.
C11_ToggleTwiceRestores ==
  [][op'.name = "toggle"
       => /\ tasks'.t = "arr"
          /\ Len(tasks'.a) = Len(tasks.a)
          /\ \A i \in 1..Len(tasks.a) :
               IF IdOf(tasks.a[i]) = JStr(op'.arg)
               THEN /\ CompletedOf(tasks'.a[i]).t = "bool"
                    /\ CompletedOf(tasks'.a[i]).b = ~Truthy(CompletedOf(tasks.a[i]))
               ELSE tasks'.a[i] = tasks.a[i]
          /\ (op.name = "toggle" /\ op.arg = op'.arg) => tasks' = op.before]_vars

\* The second of two toggles of a task of the loaded list has just run: the
\* first save in flight carries the list with the flag flipped, the second
\* the list as it was loaded, which is the list in memory again.
C11_Witness ==
  /\ op.name = "toggle"
  /\ HasId(tasks, op.arg)
  /\ Len(saves) = 2
  /\ saves[1].of = op.before
  /\ saves[1].of # tasks
  /\ saves[2].of = tasks
  /\ load.st = "done" /\ load.res.kind = "value"
  /\ tasks = Parse(load.res.text).val

\* C12: in composing-new mode a submit of a text that is non-empty after
\* trimming appends exactly one task at the end of the list, with that text
\* and completed = false; the tasks already in the list keep their position
\* and all their fields, and the input text becomes empty.
C12_AddAppendsOneTask ==
  [][op'.name = "add"
       => /\ ~Truthy(taskBeingEdited)
          /\ Trim(task.s) # <<>>
          /\ tasks.t = "arr" /\ tasks'.t = "arr"
          /\ Len(tasks'.a) = Len(tasks.a) + 1
          /\ SubSeq(tasks'.a, 1, Len(tasks.a)) = tasks.a
          /\ IsTask(tasks'.a[Len(tasks'.a)])
          /\ IdOf(tasks'.a[Len(tasks'.a)]) = JStr(op'.arg)
          /\ TextOf(tasks'.a[Len(tasks'.a)]) = task
          /\ CompletedOf(tasks'.a[Len(tasks'.a)]) = JBool(FALSE)
          /\ task' = JStr(<<>>)
          /\ taskBeingEdited' = taskBeingEdited]_vars

\* A task was just added to the loaded list of two: they are still the first
\* two, the new one is third, not completed, with the text typed.
C12_Witness ==
  /\ op.name = "add"
  /\ tasks.t = "arr" /\ Len(tasks.a) = 3
  /\ load.st = "done" /\ load.res.kind = "value"
  /\ SubSeq(tasks.a, 1, 2) = Parse(load.res.text).val.a
  /\ TextOf(tasks.a[3]) = JStr(<<" ", "b">>)
  /\ CompletedOf(tasks.a[3]) = JBool(FALSE)
  /\ task = JStr(<<>>)

\* C13: once a save was issued, in every state in which no storage operation
\* is in flight (the startup load has finished, no save is pending), every
\* save issued so far succeeded and the saves completed in the order issued,
\* the durable slot holds exactly the serialization of the list in memory.
C13_MemoryAndSlotConverge ==
  ( /\ load.st = "done"
    /\ saves = <<>>
    /\ issued >= 1
    /\ done = issued
    /\ lastDone.inOrder )
  => storage = Stored(Stringify(tasks))

\* C14: whenever the edit target is set, it is the id of a task that is in
\* the in-memory list.
C14_EditTargetInList ==
  Truthy(taskBeingEdited)
    => /\ taskBeingEdited.t = "str"
       /\ HasId(tasks, taskBeingEdited.s)

\* The ids of a list, position by position.
IdSeq(v) == [i \in 1..Len(Items(v)) |-> IdOf(Items(v)[i])]

\* C15: update, toggleCompletion and beginEdit leave the sequence of ids as
\* it is (same length, same id at every position); update changes only the
\* text and toggleCompletion only the completed flag, and only of the tasks
\* with the given id; no operation changes the id of a task that stays in the
\* list: add keeps the old list as a prefix, delete keeps tasks of the old
\* list in their order.
C15_IdsAreStable ==
  [][/\ op'.name \in {"update", "toggle", "edit", "editMiss"}
          => /\ tasks.t = "arr" /\ tasks'.t = "arr"
             /\ IdSeq(tasks') = IdSeq(tasks)
     /\ op'.name = "update"
          => \A i \in 1..Len(tasks.a) :
               /\ CompletedOf(tasks'.a[i]) = CompletedOf(tasks.a[i])
               /\ tasks'.a[i] = SetProp(tasks.a[i], KeyText, TextOf(tasks'.a[i]))
               /\ IdOf(tasks.a[i]) # JStr(op'.arg) => tasks'.a[i] = tasks.a[i]
     /\ op'.name = "toggle"
          => \A i \in 1..Len(tasks.a) :
               /\ TextOf(tasks'.a[i]) = TextOf(tasks.a[i])
               /\ tasks'.a[i] = SetProp(tasks.a[i], KeyCompleted,
                                        CompletedOf(tasks'.a[i]))
               /\ IdOf(tasks.a[i]) # JStr(op'.arg) => tasks'.a[i] = tasks.a[i]
     /\ op'.name \in {"edit", "editMiss", "rejected"} => tasks' = tasks
     /\ op'.name = "add"
          => SubSeq(IdSeq(tasks'), 1, Len(tasks.a)) = IdSeq(tasks)
     /\ op'.name = "delete"
          => tasks'.a = SelectSeq(tasks.a, LAMBDA item :
                                    \E j \in 1..Len(tasks'.a) : tasks'.a[j] = item)
    ]_vars

\* The second task of the loaded list was just toggled: both ids are where
\* they were, the texts are the stored ones, the second flag is now true.
C15_Witness ==
  /\ op.name = "toggle" /\ op.arg = NumberToString(1)
  /\ tasks.t = "arr" /\ Len(tasks.a) = 2
  /\ IdSeq(tasks) = <<JStr(NumberToString(0)), JStr(NumberToString(1))>>
  /\ IdSeq(op.before) = IdSeq(tasks)
  /\ tasks.a[1] = op.before.a[1]
  /\ TextOf(tasks.a[2]) = TextOf(op.before.a[2])
  /\ CompletedOf(op.before.a[2]) = JBool(FALSE)
  /\ CompletedOf(tasks.a[2]) = JBool(TRUE)

\* C16: beginEdit(id) for an id of the list sets the edit target to id and
\* the input text to the text of a task with that id, leaves the list as it
\* is and issues no save; beginEdit(id) for an id not in the list changes
\* neither the list, the input text nor the edit target, and issues no save.
C16_BeginEditFrame ==
  [][/\ op'.name = "edit"
          => /\ HasId(tasks, op'.arg)
             /\ taskBeingEdited' = JStr(op'.arg)
             /\ \E i \in 1..Len(tasks.a) :
                  /\ IdOf(tasks.a[i]) = JStr(op'.arg)
                  /\ task' = TextOf(tasks.a[i])
             /\ tasks' = tasks
             /\ saves' = saves /\ issued' = issued /\ storage' = storage
     /\ op'.name = "editMiss"
          => /\ ~HasId(tasks, op'.arg)
             /\ UNCHANGED <<tasks, task, taskBeingEdited, saves, issued, storage>>
    ]_vars

\* The second task of the loaded list is being edited: the input shows its
\* text, the edit target is its id, the list is the loaded one, no save was
\* issued.
C16_Witness ==
  /\ op.name = "edit" /\ op.arg = NumberToString(1)
  /\ taskBeingEdited = JStr(NumberToString(1))
  /\ task = JStr(<<"b", " ">>)
  /\ load.st = "done" /\ load.res.kind = "value"
  /\ tasks = Parse(load.res.text).val
  /\ issued = 0

\* A beginEdit for an id that is not in the list has just run, with a text
\* typed and an edit target set before it: both are still there.
C16_WitnessMiss ==
  /\ op.name = "editMiss"
  /\ ~HasId(tasks, op.arg)
  /\ Truthy(taskBeingEdited)
  /\ Truthy(task)

\* Every task of the list has a text that is non-empty after trimming.
TextsNonBlank(v) ==
  \A i \in 1..Len(Items(v)) :
    /\ TextOf(Items(v)[i]).t = "str"
    /\ Trim(TextOf(Items(v)[i]).s) # <<>>

\* C17: the durable slot starting absent or with a list whose tasks all have
\* a text that is non-empty after trimming, in every reachable state every
\* task of the in-memory list, of every list handed to a save in flight, of
\* the list written last and of the list in the slot has a text that is
\* non-empty after trimming.
C17_TextsNonBlank ==
  /\ TextsNonBlank(tasks)
  /\ \A i \in 1..Len(saves) : TextsNonBlank(saves[i].of)
  /\ lastDone.set => TextsNonBlank(lastDone.of)
  /\ (storage.present /\ Parse(storage.text).ok)
       => TextsNonBlank(Parse(storage.text).val)

\* A list of three tasks, the last one added with the text " b", is in
\* memory and was written to the slot, and a blank text is in the input.
C17_Witness ==
  /\ tasks.t = "arr" /\ Len(tasks.a) = 3
  /\ TextOf(tasks.a[3]) = JStr(<<" ", "b">>)
  /\ lastDone.set /\ lastDone.of = tasks
  /\ storage = Stored(Stringify(tasks))
  /\ task = JStr(<<" ">>)

====
